---------------------------- MODULE Spec2Model ----------------------------
(***************************************************************************)
(* Model of src/Scene.py: ray/primitive intersection (Sphere, Plane,       *)
(* TriangleSoup / ParallelogramSoup / Box, SphereSoup), the AABB tree of a *)
(* face soup, and the Scene that aggregates the objects' hits.             *)
(*                                                                         *)
(* Numbers.  Floating point values are modelled by exact integers.  One    *)
(* model length unit is 5e-7, so an area or a 2x2 determinant is counted   *)
(* in units of 2.5e-13: the source's 1e-12 is AreaEps = 4 and its 1e-8 is  *)
(* DetEps = 40000.  The inputs are drawn from catalogues on which every    *)
(* division and square root of the source is exact (axis-parallel rays and *)
(* normals, faces lying in axis-aligned planes); the guards named Exact... *)
(* state that restriction.  Rounding is not modelled.                      *)
(***************************************************************************)
EXTENDS Integers, Sequences, FiniteSets, TLC

VARIABLES
    objList, objName,     \* Scene.objList, Scene.objName
    sceneQ,               \* last Scene.ray_intersect call: arguments and result
    primQ,                \* last single-primitive ray_intersect call
    num_sphere, spheres, scount,  \* SphereSoup fields
    soupErr,              \* SphereSoup / FaceSoup: an exception escaped the last call
    soupQ,                \* last SphereSoup call
    soupKind,             \* class of the face soup: "Triangle" or "Parallelogram"
    faceCap,              \* count given to TriangleSoup.__init__ (size of faces)
    faces, face_count,    \* TriangleSoup.faces, TriangleSoup.face_count
    octree,               \* TriangleSoup.octree: the flattened AABB tree
    octlist,              \* TriangleSoup.octlist: the traversal stack (one field per soup)
    faceErr,              \* an exception escaped the last face soup call
    faceQ,                \* last face soup call
    treeCount,            \* count of the AABBTree last built (0: none built)
    thr                   \* the ray_intersect calls in flight, one record per thread

sceneVars == <<objList, objName, sceneQ>>
primVars == <<primQ>>
ssVars == <<num_sphere, spheres, scount, soupErr, soupQ>>
faceVars == <<soupKind, faceCap, faces, face_count, octree, octlist, faceErr, faceQ,
              treeCount>>
thrVars == <<thr>>
vars == <<objList, objName, sceneQ, primQ, num_sphere, spheres, scount, soupErr, soupQ,
          soupKind, faceCap, faces, face_count, octree, octlist, faceErr, faceQ,
          treeCount, thr>>

---------------------------------------------------------------------------
(* Vectors: ti.Vector of length 3 *)

Abs(v) == IF v < 0 THEN -v ELSE v
Min2(p, q) == IF p < q THEN p ELSE q

VAdd(u, v) == <<u[1] + v[1], u[2] + v[2], u[3] + v[3]>>
VSub(u, v) == <<u[1] - v[1], u[2] - v[2], u[3] - v[3]>>
VScale(t, v) == <<t * v[1], t * v[2], t * v[3]>>
VNeg(v) == <<-v[1], -v[2], -v[3]>>
Dot(u, v) == u[1] * v[1] + u[2] * v[2] + u[3] * v[3]
Cross(u, v) == <<u[2] * v[3] - u[3] * v[2],
                 u[3] * v[1] - u[1] * v[3],
                 u[1] * v[2] - u[2] * v[1]>>

\* a / b for integers where b divides a (sign of b free)
Div(p, q) == IF q < 0 THEN (-p) \div (-q) ELSE p \div q
Divides(q, p) == q # 0 /\ p % Abs(q) = 0
VDiv(v, q) == <<Div(v[1], q), Div(v[2], q), Div(v[3], q)>>

\* v.norm() of an axis-parallel vector (two components zero): exact
AxisParallel(v) == Cardinality({i \in 1..3 : v[i] # 0}) = 1
Norm(v) == Abs(v[1]) + Abs(v[2]) + Abs(v[3])

\* ti.sqrt on a perfect square; floor of the root otherwise
Sqrt(n) == CHOOSE k \in 0..n : k * k <= n /\ (k + 1) * (k + 1) > n
IsSquare(n) == n >= 0 /\ Sqrt(n) * Sqrt(n) = n

---------------------------------------------------------------------------
(* Ray *)

Ray(origin, direction) ==
    [origin |-> origin, direction |-> VDiv(direction, Norm(direction))]

At(ray, t) == VAdd(ray.origin, VScale(t, ray.direction))

---------------------------------------------------------------------------
(* _sphere_hit and Sphere *)

DefaultPoint == <<0, 0, 0>>
DefaultNormal == <<0, 1, 0>>

\* the discriminant doc^2 - (oc.oc - r^2) of _sphere_hit
SphereDisc(x, r, ray) ==
    LET oc == VSub(ray.origin, x)
        doc == Dot(ray.direction, oc)
    IN doc * doc - (Dot(oc, oc) - r * r)

sphere_hit(x, r, ray, time_min, time_max) ==
    LET oc == VSub(ray.origin, x)
        doc == Dot(ray.direction, oc)
        t == doc * doc - (Dot(oc, oc) - r * r)
        miss == [is_hit |-> 0, hit_time |-> time_max, is_inside |-> 0]
        cls == IF t > time_min
               THEN LET rt == Sqrt(t)
                        t1 == -doc + rt
                        t2 == -doc - rt
                    IN IF rt < time_max
                       THEN IF t1 < 0
                            THEN IF t2 > 0
                                 THEN [is_hit |-> 1, hit_time |-> t2, is_inside |-> 1]
                                 ELSE miss
                            ELSE IF t2 > 0
                                 THEN [is_hit |-> 1, hit_time |-> Min2(t1, t2), is_inside |-> 0]
                                 ELSE [is_hit |-> 1, hit_time |-> t2, is_inside |-> 1]
                       ELSE miss
               ELSE miss
        hp == At(ray, cls.hit_time)
    IN [is_hit |-> cls.is_hit,
        hit_time |-> cls.hit_time,
        hit_point |-> IF cls.is_hit = 1 THEN hp ELSE DefaultPoint,
        hit_normal |-> IF cls.is_hit = 1
                       THEN IF cls.is_inside = 1 THEN VDiv(VSub(x, hp), r)
                                                 ELSE VDiv(VSub(hp, x), r)
                       ELSE DefaultNormal,
        is_inside |-> cls.is_inside]

\* the square root and the division by r are exact on this input
ExactSphere(x, r, ray) ==
    LET d == SphereDisc(x, r, ray)
        oc == VSub(ray.origin, x)
        perp == VSub(oc, VScale(Dot(ray.direction, oc), ray.direction))
    IN d <= 0 \/ (IsSquare(d) /\ perp = <<0, 0, 0>>)

Sphere(center, radius, material, color) ==
    [kind |-> "Sphere", center |-> center, radius |-> radius,
     material |-> material, color |-> color]

Sphere_ray_intersect(self, ray, time_min, time_max) ==
    LET h == sphere_hit(self.center, self.radius, ray, time_min, time_max)
    IN [is_hit |-> h.is_hit, hit_time |-> h.hit_time, hit_point |-> h.hit_point,
        hit_normal |-> h.hit_normal, material |-> self.material,
        color |-> self.color, is_inside |-> h.is_inside]

---------------------------------------------------------------------------
(* Plane *)

Plane(center, normal, material, color) ==
    [kind |-> "Plane", center |-> center, normal |-> VDiv(normal, Norm(normal)),
     material |-> material, color |-> color]

\* t = n.(c - p) / n.d, computed only when n.d < 0
PlaneTime(self, ray) ==
    Div(Dot(self.normal, VSub(self.center, ray.origin)),
        Dot(self.normal, ray.direction))

Plane_ray_intersect(self, ray, time_min, time_max) ==
    LET facing == Dot(ray.direction, self.normal) < 0
        t == IF facing THEN PlaneTime(self, ray) ELSE time_max
        hit == facing /\ ~(t < time_min) /\ t < time_max
    IN [is_hit |-> IF hit THEN 1 ELSE 0,
        hit_time |-> t,
        hit_point |-> IF hit THEN At(ray, t) ELSE DefaultPoint,
        hit_normal |-> IF hit THEN self.normal ELSE DefaultNormal,
        material |-> self.material, color |-> self.color, is_inside |-> 0]

ExactPlane(self, ray) ==
    LET nd == Dot(self.normal, ray.direction)
    IN nd < 0 => Divides(nd, Dot(self.normal, VSub(self.center, ray.origin)))

---------------------------------------------------------------------------
(* Materials (module level constants of the source) *)

M_unknown == 0
M_light_source == 1
M_metal == 2
M_dielectric == 3
M_diffuse == 4

---------------------------------------------------------------------------
(* Scene *)

\* self.objList[i].ray_intersect(...): dispatch on the object's class
Obj_ray_intersect(obj, ray, time_min, time_max) ==
    IF obj.kind = "Sphere"
    THEN Sphere_ray_intersect(obj, ray, time_min, time_max)
    ELSE Plane_ray_intersect(obj, ray, time_min, time_max)

ExactObj(obj, ray) ==
    IF obj.kind = "Sphere" THEN ExactSphere(obj.center, obj.radius, ray)
    ELSE ExactPlane(obj, ray)

\* the hit record before the first object is queried
SceneStart(time_max) ==
    [is_hit |-> 0, hit_time |-> time_max, hit_point |-> DefaultPoint,
     hit_normal |-> DefaultNormal, material |-> 0, color |-> <<0, 0, 0>>,
     is_inside |-> 0]

\* one iteration of the loop over objList; acc.hit_time is the running time_max
SceneStep(acc, obj, ray, time_min) ==
    LET info == Obj_ray_intersect(obj, ray, time_min, acc.hit_time)
    IN IF info.is_hit = 1 /\ info.hit_time > time_min
       THEN IF acc.hit_time > info.hit_time
            THEN [info EXCEPT !.is_hit = 1]
            ELSE [acc EXCEPT !.is_hit = 1]
       ELSE acc

RECURSIVE SceneLoop(_, _, _, _, _)
SceneLoop(objs, i, acc, ray, time_min) ==
    IF i > Len(objs) THEN acc
    ELSE SceneLoop(objs, i + 1, SceneStep(acc, objs[i], ray, time_min), ray, time_min)

Scene_ray_intersect(objs, ray, time_min, time_max) ==
    SceneLoop(objs, 1, SceneStart(time_max), ray, time_min)

\* names: "obj%d" % n is <<"obj", n>>; any other name is <<"usr", k>>
None == <<"None", 0>>
AutoName(n) == <<"obj", n>>

\* index of the first entry of objName equal to name, 0 when absent
IndexOf(names, name) ==
    IF \E i \in 1..Len(names) : names[i] = name
    THEN CHOOSE i \in 1..Len(names) :
            names[i] = name /\ \A j \in 1..(i - 1) : names[j] # name
    ELSE 0

RemoveAt(s, i) == SubSeq(s, 1, i - 1) \o SubSeq(s, i + 1, Len(s))

\* bounds of the scene and primitive models
MaxObjs == 2
MaxCoord == 6
MaxRadius == 4

NoRay == Ray(<<0, 0, 0>>, <<0, 0, 1>>)

\* a call record: the operation last called, its arguments and what it returned
NoCall == [op |-> "none", obj |-> None, name |-> None, ray |-> NoRay,
           time_min |-> 0, time_max |-> 0, res |-> SceneStart(0)]
QueryCall(obj, ray, time_min, time_max, res) ==
    [op |-> "ray_intersect", obj |-> obj, name |-> None, ray |-> ray,
     time_min |-> time_min, time_max |-> time_max, res |-> res]
EditCall(op, obj, name) == [NoCall EXCEPT !.op = op, !.obj = obj, !.name = name]

UserNames == {<<"usr", 0>>}
Names == {AutoName(n) : n \in 0..MaxObjs} \cup UserNames

SceneObjs ==
    {Sphere(<<0, 0, 0>>, MaxRadius, M_metal, <<1, 0, 0>>),
     Sphere(<<0, 0, 0>>, 1, M_diffuse, <<0, 1, 0>>),
     Plane(<<0, 0, 3>>, <<0, 0, 2>>, M_dielectric, <<0, 0, 1>>),
     Plane(<<0, 0, -2>>, <<0, 0, 1>>, M_light_source, <<1, 1, 0>>)}

SceneRays ==
    {Ray(<<0, 0, MaxCoord>>, <<0, 0, -1>>), Ray(<<0, 0, MaxCoord - 1>>, <<0, 0, -2>>),
     Ray(<<0, 0, 0>>, <<0, 0, 3>>)}
SceneTimeMins == {0, 1}
SceneTimeMaxs == {5, 100}

\* a plausible slip: the search for an existing name is left out
Scene_append_always(obj, name) ==
    LET nm == IF name = None THEN AutoName(Len(objList)) ELSE name
    IN /\ Len(objList) < MaxObjs
       /\ objName' = Append(objName, nm)
       /\ objList' = Append(objList, obj)
       /\ sceneQ' = EditCall("append", obj, name)

Scene_append(obj, name) ==
    LET nm == IF name = None THEN AutoName(Len(objList)) ELSE name
        i == IndexOf(objName, nm)
    IN /\ i = 0 => Len(objList) < MaxObjs
       /\ IF i # 0
          THEN /\ objList' = [objList EXCEPT ![i] = obj]
               /\ objName' = objName
          ELSE /\ objName' = Append(objName, nm)
               /\ objList' = Append(objList, obj)
       /\ sceneQ' = EditCall("append", obj, name)

Scene_remove_obj(name) ==
    LET ni == IndexOf(objName, name)
    IN /\ IF ni # 0
          THEN /\ objList' = RemoveAt(objList, ni)
               /\ objName' = RemoveAt(objName, ni)
          ELSE UNCHANGED <<objList, objName>>
       /\ sceneQ' = EditCall("remove_obj", None, name)

Scene_clear_objs ==
    /\ objList' = <<>>
    /\ objName' = <<>>
    /\ sceneQ' = EditCall("clear_objs", None, None)

Scene_query(ray, time_min, time_max) ==
    /\ \A i \in 1..Len(objList) : ExactObj(objList[i], ray)
    /\ sceneQ' = QueryCall(None, ray, time_min, time_max,
                           Scene_ray_intersect(objList, ray, time_min, time_max))
    /\ UNCHANGED <<objList, objName>>

\* no face soup constructed
NoFaceSoup ==
    /\ soupKind = "Triangle" /\ faceCap = 0 /\ faces = <<>> /\ face_count = 0
    /\ octree = <<>> /\ octlist = <<>> /\ faceErr = FALSE /\ faceQ = NoCall
    /\ treeCount = 0
    /\ thr = <<>>

IdleInit ==
    /\ objList = <<>> /\ objName = <<>> /\ sceneQ = NoCall
    /\ primQ = NoCall
    /\ num_sphere = 0 /\ spheres = <<>> /\ scount = 0 /\ soupErr = FALSE
    /\ soupQ = NoCall
    /\ NoFaceSoup

SceneNext ==
    \/ \E obj \in SceneObjs, name \in Names \cup {None} : Scene_append(obj, name)
    \/ \E name \in Names : Scene_remove_obj(name)
    \/ Scene_clear_objs
    \/ \E ray \in SceneRays, tmin \in SceneTimeMins, tmax \in SceneTimeMaxs :
          Scene_query(ray, tmin, tmax)

SpecScene ==
    IdleInit /\ [][SceneNext /\ UNCHANGED <<primVars, ssVars, faceVars, thrVars>>]_vars

---------------------------------------------------------------------------
(* Single primitives: Sphere.ray_intersect and Plane.ray_intersect applied *)
(* to inputs drawn from the catalogues below                               *)

PrimSpheres ==
    {Sphere(<<0, 0, c>>, r, M_metal, <<1, 0, 0>>) : c \in {0, 2}, r \in 1..MaxRadius}
PrimPlanes ==
    {Plane(<<0, 0, c>>, n, M_diffuse, <<0, 1, 0>>) :
        c \in {-2, 0, 3}, n \in {<<0, 0, 2>>, <<0, 0, -1>>, <<1, 0, 0>>}}
PrimRays ==
    {Ray(<<0, 0, k>>, d) : k \in (-MaxCoord)..MaxCoord,
                           d \in {<<0, 0, 1>>, <<0, 0, -2>>, <<3, 0, 0>>}}
PrimTimeMins == {0, 1}
PrimTimeMaxs == {2, 5, 100}

\* one call per behaviour: the call is applied to the inputs drawn for it
Sphere_query(obj, ray, time_min, time_max) ==
    /\ primQ.op = "none"
    /\ ExactSphere(obj.center, obj.radius, ray)
    /\ primQ' = QueryCall(obj, ray, time_min, time_max,
                          Sphere_ray_intersect(obj, ray, time_min, time_max))

Plane_query(obj, ray, time_min, time_max) ==
    /\ primQ.op = "none"
    /\ ExactPlane(obj, ray)
    /\ primQ' = QueryCall(obj, ray, time_min, time_max,
                          Plane_ray_intersect(obj, ray, time_min, time_max))

PrimNext ==
    \/ \E obj \in PrimSpheres, ray \in PrimRays, tmin \in PrimTimeMins,
          tmax \in PrimTimeMaxs : Sphere_query(obj, ray, tmin, tmax)
    \/ \E obj \in PrimPlanes, ray \in PrimRays, tmin \in PrimTimeMins,
          tmax \in PrimTimeMaxs : Plane_query(obj, ray, tmin, tmax)

SpecPrim ==
    IdleInit /\ [][PrimNext /\ UNCHANGED <<sceneVars, ssVars, faceVars, thrVars>>]_vars

---------------------------------------------------------------------------
(* SphereSoup *)

MaxSpheres == 2

ZeroSphere == [x |-> <<0, 0, 0>>, r |-> 0, material |-> 0, color |-> <<0, 0, 0>>]

SoupSpheres ==
    {[x |-> <<0, 0, 0>>, r |-> MaxRadius, material |-> M_metal, color |-> <<1, 0, 0>>],
     [x |-> <<0, 0, 2>>, r |-> 1, material |-> M_diffuse, color |-> <<0, 1, 0>>],
     [x |-> <<0, 0, -3>>, r |-> 2, material |-> M_dielectric, color |-> <<0, 0, 1>>]}

\* SphereSoup(count): a field of count zeroed spheres, none appended
SphereSoup_init(count) ==
    /\ num_sphere = count
    /\ spheres = [i \in 1..count |-> ZeroSphere]
    /\ scount = 0
    /\ soupErr = FALSE
    /\ soupQ = NoCall

\* a plausible slip: the capacity test is left out
SphereSoup_append_unchecked(sp) ==
    /\ scount < num_sphere + 1
    /\ spheres' = IF scount < num_sphere
                  THEN [spheres EXCEPT ![scount + 1] = sp]
                  ELSE spheres
    /\ scount' = scount + 1
    /\ soupQ' = EditCall("append", sp, None)
    /\ UNCHANGED <<num_sphere, soupErr>>

SphereSoup_append(sp) ==
    /\ IF scount >= num_sphere
       THEN UNCHANGED <<spheres, scount>>
       ELSE /\ spheres' = [spheres EXCEPT ![scount + 1] = sp]
            /\ scount' = scount + 1
    /\ soupQ' = EditCall("append", sp, None)
    /\ UNCHANGED <<num_sphere, soupErr>>

SoupStart(time_max, color) ==
    [is_hit |-> 0, hit_time |-> time_max, hit_point |-> DefaultPoint,
     hit_normal |-> DefaultNormal, material |-> 0, color |-> color, is_inside |-> 0]

\* one iteration of the loop over the spheres; acc.hit_time is the running bound
SoupStep(acc, item, ray, time_min) ==
    LET info == sphere_hit(item.x, item.r, ray, time_min, acc.hit_time)
    IN IF info.is_hit = 0 \/ info.hit_time > acc.hit_time
       THEN acc
       ELSE [is_hit |-> info.is_hit, hit_time |-> info.hit_time,
             hit_point |-> info.hit_point, hit_normal |-> info.hit_normal,
             material |-> item.material, color |-> item.color,
             is_inside |-> info.is_inside]

RECURSIVE SoupLoop(_, _, _, _, _, _)
SoupLoop(sps, n, idx, acc, ray, time_min) ==
    IF idx > n THEN acc
    ELSE SoupLoop(sps, n, idx + 1, SoupStep(acc, sps[idx], ray, time_min), ray, time_min)

\* self.color of the soup: the constructor's default
SoupColor == <<1, 1, 1>>

SphereSoup_ray_intersect(sps, n, ray, time_min, time_max) ==
    SoupLoop(sps, n, 1, SoupStart(time_max, SoupColor), ray, time_min)

SphereSoup_query(ray, time_min, time_max) ==
    /\ \A i \in 1..scount : ExactSphere(spheres[i].x, spheres[i].r, ray)
    /\ soupQ' = QueryCall(None, ray, time_min, time_max,
                          SphereSoup_ray_intersect(spheres, scount, ray, time_min, time_max))
    /\ UNCHANGED <<num_sphere, spheres, scount, soupErr>>

SoupNext ==
    \/ \E sp \in SoupSpheres : SphereSoup_append(sp)
    \/ \E ray \in SceneRays, tmin \in SceneTimeMins, tmax \in SceneTimeMaxs :
          SphereSoup_query(ray, tmin, tmax)

SoupInit ==
    /\ objList = <<>> /\ objName = <<>> /\ sceneQ = NoCall
    /\ primQ = NoCall
    /\ NoFaceSoup
    /\ \E count \in 1..MaxSpheres : SphereSoup_init(count)

SpecSoup ==
    SoupInit /\ [][SoupNext /\ UNCHANGED <<sceneVars, primVars, faceVars, thrVars>>]_vars

---------------------------------------------------------------------------
(* Faces: _parallelogram_init, _parallelogram_alpha_beta, TriangleSoup.append *)

\* 1e-12 and 1e-8 in the model's area unit of 2.5e-13
AreaEps == 4
DetEps == 40000

\* the three 2x2 determinants of the edge matrix, in the order the source tries them
SubDet(ax, bx, idx) ==
    IF idx = 0 THEN ax[2] * bx[3] - ax[3] * bx[2]
    ELSE IF idx = 1 THEN ax[1] * bx[3] - ax[3] * bx[1]
    ELSE ax[1] * bx[2] - ax[2] * bx[1]

\* detidx as the two "if ti.abs(det) < 1e-8" tests leave it
PickDet(ax, bx) ==
    IF ~(Abs(SubDet(ax, bx, 0)) < DetEps) THEN 0
    ELSE IF ~(Abs(SubDet(ax, bx, 1)) < DetEps) THEN 1
    ELSE 2

\* info = (ax, bx, normal, area, detidx, 1.0 / det); det stands for idet = 1/det.
\* raised: normal / area with area = 0, or 1.0 / det with det = 0 (ZeroDivisionError)
parallelogram_init(a, x, b) ==
    LET ax == VSub(a, x)
        bx == VSub(b, x)
        normal == Cross(bx, ax)
        area == Norm(normal)
        detidx == PickDet(ax, bx)
        det == SubDet(ax, bx, detidx)
    IN [raised |-> area = 0 \/ det = 0,
        ax |-> ax, bx |-> bx,
        n |-> IF area = 0 THEN normal ELSE VDiv(normal, area),
        area |-> area, detidx |-> detidx, det |-> det]

\* the normal is zero or axis-parallel, so that its norm is exact
ExactFace(a, x, b) ==
    LET normal == Cross(VSub(b, x), VSub(a, x))
    IN normal = <<0, 0, 0>> \/ AxisParallel(normal)

ZeroFace == [x |-> <<0, 0, 0>>, ax |-> <<0, 0, 0>>, bx |-> <<0, 0, 0>>,
             n |-> <<0, 0, 0>>, idetidx |-> 0, det |-> 0, material |-> 0,
             color |-> <<0, 0, 0>>]

MakeFace(x, info, material, color) ==
    [x |-> x, ax |-> info.ax, bx |-> info.bx, n |-> info.n, idetidx |-> info.detidx,
     det |-> info.det, material |-> material, color |-> color]

\* TriangleSoup.append on the fields (fs, cnt): the fields after the call and
\* whether the call raised
AppendFace(fs, cnt, a, x, b, material, color) ==
    LET info == parallelogram_init(a, x, b)
    IN IF info.raised
       THEN [faces |-> fs, count |-> cnt, raised |-> TRUE]
       ELSE IF info.area > AreaEps
            THEN [faces |-> [fs EXCEPT ![cnt + 1] = MakeFace(x, info, material, color)],
                  count |-> cnt + 1, raised |-> FALSE]
            ELSE [faces |-> fs, count |-> cnt, raised |-> FALSE]

\* alpha * idet and beta * idet as fractions alpha / den, beta / den
parallelogram_alpha_beta(px, ax, bx, idetidx, det) ==
    IF idetidx = 0
    THEN [alpha |-> px[2] * bx[3] - px[3] * bx[2],
          beta |-> px[3] * ax[2] - px[2] * ax[3], den |-> det]
    ELSE IF idetidx = 1
    THEN [alpha |-> px[1] * bx[3] - px[3] * bx[1],
          beta |-> px[3] * ax[1] - px[1] * ax[3], den |-> det]
    ELSE [alpha |-> px[1] * bx[2] - px[2] * bx[1],
          beta |-> px[2] * ax[1] - px[1] * ax[2], den |-> det]

\* n / d < 0 and n / d > 1 for d # 0
FracNeg(n, d) == (n < 0 /\ d > 0) \/ (n > 0 /\ d < 0)
FracGtOne(n, d) == (d > 0 /\ n > d) \/ (d < 0 /\ n < d)

\* TriangleSoup._check_ab and its override in ParallelogramSoup
check_ab(kind, ab) ==
    IF kind = "Triangle"
    THEN IF FracNeg(ab.alpha, ab.den) \/ FracNeg(ab.beta, ab.den)
            \/ FracGtOne(ab.alpha + ab.beta, ab.den)
         THEN 0 ELSE 1
    ELSE IF FracNeg(ab.alpha, ab.den) \/ FracNeg(ab.beta, ab.den)
            \/ FracGtOne(ab.alpha, ab.den) \/ FracGtOne(ab.beta, ab.den)
         THEN 0 ELSE 1

\* the plane test and in-plane test of one face inside TriangleSoup.ray_intersect:
\* whether the face is hit within (time_min, time_max), and when
FaceHit(kind, item, ray, time_min, time_max) ==
    LET nd == Dot(ray.direction, item.n)
        t == IF nd < 0 THEN Div(Dot(item.n, VSub(item.x, ray.origin)), nd) ELSE 0
        p == At(ray, t)
        ab == parallelogram_alpha_beta(VSub(p, item.x), item.ax, item.bx,
                                       item.idetidx, item.det)
    IN [hit |-> nd < 0 /\ t > time_min /\ t < time_max /\ check_ab(kind, ab) = 1,
        t |-> t, p |-> p]

---------------------------------------------------------------------------
(* AABBTree: build.  Face and node indices are 0-based as in the source;   *)
(* entry i of a field is element i + 1 of the sequence that models it.     *)

SetMin(S) == CHOOSE m \in S : \A n \in S : m <= n
SetMax(S) == CHOOSE m \in S : \A n \in S : m >= n

\* the three stored corners x, a, b of a face, along axis j
Corners(f, j) == {f.x[j], f.ax[j] + f.x[j], f.bx[j] + f.x[j]}

\* AABBTree._compute_object_centers; the model keeps 2 * objcenters (min + max)
compute_object_centers(fs, count) ==
    [i \in 1..count |->
        [j \in 1..3 |-> SetMin(Corners(fs[i], j)) + SetMax(Corners(fs[i], j))]]

RECURSIVE SumOver(_, _, _, _)
SumOver(cs, lo, hi, j) == IF lo > hi THEN 0 ELSE cs[lo][j] + SumOver(cs, lo + 1, hi, j)

\* AABBTree._compute_box on [L, R): tcmm[0] (cmin), tcmm[1] (cmax), tcmm[2]
\* (size, doubled like the centers: ccmin and ccmax start from 0) and tcmm[3]
\* (the mean centre, kept as the sum censum of the doubled centers over cnt faces).
\* The sum is accumulated in f32 by a parallel loop and then divided: round
\* tells whether the stored mean fell below (-1), on (0) or above (1) the exact
\* one, by less than any difference between two centers.
Roundings == {-1, 0, 1}
compute_box(fs, cs, L, R, rnd) ==
    LET rng == (L + 1)..R
        cmin == [j \in 1..3 |->
                    SetMin({fs[L + 1].x[j]} \cup UNION {Corners(fs[i], j) : i \in rng})]
        cmax == [j \in 1..3 |->
                    SetMax({fs[L + 1].x[j]} \cup UNION {Corners(fs[i], j) : i \in rng})]
        ccmin == [j \in 1..3 |-> SetMin({0} \cup {cs[i][j] : i \in rng})]
        ccmax == [j \in 1..3 |-> SetMax({0} \cup {cs[i][j] : i \in rng})]
    IN [cmin |-> cmin, cmax |-> cmax,
        size |-> [j \in 1..3 |-> Abs(ccmax[j] - ccmin[j])],
        censum |-> [j \in 1..3 |-> IF R > L THEN SumOver(cs, L + 1, R, j) ELSE 0],
        cnt |-> R - L, round |-> rnd]

\* bsize.sort(key=size) is stable, and bsize[-1][1] is taken: the last axis
\* (0-based) among those of largest size
SplitAxis(size) ==
    SetMax({j \in 0..2 : \A k \in 0..2 : size[j + 1] >= size[k + 1]})

Swap(q, i, j) == [q EXCEPT ![i + 1] = q[j + 1], ![j + 1] = q[i + 1]]

\* objcenters[i][axis] <= x and >= x for x the stored mean: censum / cnt (both
\* sides doubled) moved by the rounding, which decides only the ties
CenterLe(cs, i, axis, cmm) ==
    2 * cs[i + 1][axis + 1] * cmm.cnt <= 2 * cmm.censum[axis + 1] + cmm.round
CenterGe(cs, i, axis, cmm) ==
    2 * cs[i + 1][axis + 1] * cmm.cnt >= 2 * cmm.censum[axis + 1] + cmm.round

RECURSIVE MoveRight(_, _, _, _, _)
MoveRight(cs, cmm, axis, i, j) ==
    IF CenterLe(cs, i, axis, cmm) /\ i < j THEN MoveRight(cs, cmm, axis, i + 1, j) ELSE i

RECURSIVE MoveLeft(_, _, _, _, _)
MoveLeft(cs, cmm, axis, i, j) ==
    IF CenterGe(cs, j, axis, cmm) /\ i < j THEN MoveLeft(cs, cmm, axis, i, j - 1) ELSE j

\* the outer loop of AABBTree._sort_triangles, swap_obj included
RECURSIVE SortLoop(_, _, _, _, _, _)
SortLoop(fs, cs, cmm, axis, i, j) ==
    IF i < j
    THEN LET i2 == MoveRight(cs, cmm, axis, i, j)
             j2 == MoveLeft(cs, cmm, axis, i2, j)
         IN IF i2 < j2
            THEN SortLoop(Swap(fs, i2, j2), Swap(cs, i2, j2), cmm, axis, i2, j2)
            ELSE SortLoop(fs, cs, cmm, axis, i2, j2)
    ELSE [lx |-> j, faces |-> fs, centers |-> cs]

sort_triangles(fs, cs, cmm, left, right, axis) ==
    SortLoop(fs, cs, cmm, axis, left, right - 1)

NoneNode == [tag |-> "None"]
TreeNode(index) ==
    [tag |-> "Node", index |-> index, cmin |-> <<0, 0, 0>>, cmax |-> <<0, 0, 0>>,
     left |-> NoneNode, right |-> NoneNode]
is_leaf(node) == node.index >= 0
index_encode(node) == IF node.index < 0 THEN 0 ELSE -1 * (node.index + 1)

\* a plausible slip: the split taken one past the index _sort_triangles
\* returns (the first face of the upper part), without the guards
GuardSplit_next(lx, left, right) == lx + 1

\* lx after the two guards of split_aabb
GuardSplit(lx, left, right) ==
    LET l1 == IF lx = left THEN left + 1 ELSE lx
    IN IF l1 = right THEN right - 1 ELSE l1

\* nested split_aabb calls the interpreter allows before it raises
\* RecursionError (1000 frames by default; the builds here nest far less)
RecursionLimit == 8

\* AABBTree.split_aabb: the subtree of [left, right) and the arrays as the
\* in-place partition leaves them; raised when the nesting passed the limit,
\* which ends the build where it stands
RECURSIVE split_aabb(_, _, _, _, _, _)
split_aabb(fs, cs, left, right, rnd, depth) ==
    IF depth > RecursionLimit
    THEN [node |-> NoneNode, faces |-> fs, centers |-> cs, raised |-> TRUE]
    ELSE IF left > right
    THEN [node |-> NoneNode, faces |-> fs, centers |-> cs, raised |-> FALSE]
    ELSE
    LET cmm == compute_box(fs, cs, left, right, rnd)
        tnode == [TreeNode(-1) EXCEPT !.cmin = cmm.cmin, !.cmax = cmm.cmax]
    IN IF right - left = 1
       THEN [node |-> [tnode EXCEPT !.left = TreeNode(left)],
             faces |-> fs, centers |-> cs, raised |-> FALSE]
       ELSE IF right - left = 2
       THEN [node |-> [tnode EXCEPT !.left = TreeNode(left),
                                    !.right = TreeNode(left + 1)],
             faces |-> fs, centers |-> cs, raised |-> FALSE]
       ELSE LET axis == SplitAxis(cmm.size)
                st == sort_triangles(fs, cs, cmm, left, right, axis)
                lx == GuardSplit(st.lx, left, right)
                l == split_aabb(st.faces, st.centers, left, lx, rnd, depth + 1)
                r == IF l.raised THEN l
                     ELSE split_aabb(l.faces, l.centers, lx, right, rnd, depth + 1)
            IN [node |-> [tnode EXCEPT !.left = l.node, !.right = r.node],
                faces |-> r.faces, centers |-> r.centers, raised |-> r.raised]

ZeroNode == [cmin |-> <<0, 0, 0>>, cmax |-> <<0, 0, 0>>, subn |-> <<0, 0>>]

\* out[idx] of a zero-initialised field kept as its written prefix
NodeAt(out, idx) == IF idx + 1 <= Len(out) THEN out[idx + 1] ELSE ZeroNode
Padded(out, idx) ==
    IF idx + 1 <= Len(out) THEN out
    ELSE out \o [k \in 1..(idx + 1 - Len(out)) |-> ZeroNode]
SetBox(out, idx, cmin, cmax) ==
    [Padded(out, idx) EXCEPT ![idx + 1].cmin = cmin, ![idx + 1].cmax = cmax]
SetSubn(out, idx, k, v) == [Padded(out, idx) EXCEPT ![idx + 1].subn[k + 1] = v]

\* a plausible slip: an inner right child is not flattened, its slot left 0
RECURSIVE nodes_to_taichi_no_right(_, _, _)
nodes_to_taichi_no_right(root, out, idx) ==
    IF root.tag = "None" THEN [out |-> out, n |-> 0]
    ELSE
    LET o1 == SetBox(out, idx, root.cmin, root.cmax)
        l == IF root.left.tag = "None"
             THEN [out |-> SetSubn(o1, idx, 0, 0), n |-> 1]
             ELSE IF is_leaf(root.left)
             THEN [out |-> SetSubn(o1, idx, 0, index_encode(root.left)), n |-> 1]
             ELSE LET sub == nodes_to_taichi_no_right(root.left,
                                                      SetSubn(o1, idx, 0, idx + 1), idx + 1)
                  IN [out |-> sub.out, n |-> 1 + sub.n]
    IN IF root.right.tag # "None" /\ is_leaf(root.right)
       THEN [out |-> SetSubn(l.out, idx, 1, index_encode(root.right)), n |-> l.n]
       ELSE [out |-> SetSubn(l.out, idx, 1, 0), n |-> l.n]

\* AABBTree._nodes_to_taichi: the field after the call and the number of nodes
\* written.  The test before the right child is on root.left, as in the source.
RECURSIVE nodes_to_taichi(_, _, _)
nodes_to_taichi(root, out, idx) ==
    IF root.tag = "None" THEN [out |-> out, n |-> 0]
    ELSE
    LET o1 == SetBox(out, idx, root.cmin, root.cmax)
        l == IF root.left.tag = "None"
             THEN [out |-> SetSubn(o1, idx, 0, 0), n |-> 1]
             ELSE IF is_leaf(root.left)
             THEN [out |-> SetSubn(o1, idx, 0, index_encode(root.left)), n |-> 1]
             ELSE LET sub == nodes_to_taichi(root.left, SetSubn(o1, idx, 0, idx + 1),
                                             idx + 1)
                  IN [out |-> sub.out, n |-> 1 + sub.n]
        r == IF root.right.tag = "None"
             THEN [out |-> SetSubn(l.out, idx, 1, 0), n |-> l.n]
             ELSE IF is_leaf(root.left)
             THEN [out |-> SetSubn(l.out, idx, 1, index_encode(root.right)), n |-> l.n]
             ELSE LET sub == nodes_to_taichi(root.right,
                                             SetSubn(l.out, idx, 1, idx + l.n),
                                             idx + l.n)
                  IN [out |-> sub.out, n |-> l.n + sub.n]
    IN r

\* TriangleSoup.build_tree on the fields: AABBTree(face_count, faces),
\* build_tree, nodes_to_taichi(self.octree); a build that raised wrote no node
Flatten(t, oct) ==
    [faces |-> t.faces,
     octree |-> IF t.raised THEN oct ELSE nodes_to_taichi(t.node, oct, 0).out,
     root |-> t.node, raised |-> t.raised]
BuildTree(fs, cnt, oct, rnd) ==
    IF cnt <= 0 THEN [faces |-> fs, octree |-> oct, root |-> NoneNode, raised |-> FALSE]
    ELSE Flatten(split_aabb(fs, compute_object_centers(fs, cnt), 0, cnt, rnd, 1), oct)

---------------------------------------------------------------------------
(* AABBTree: traversal (TriangleSoup.ray_intersect) *)

ray_intersect_solid_box_face(uhit, omin, omax, axis) ==
    IF \E i \in 0..2 : i # axis /\ (uhit[i + 1] < omin[i + 1] \/ uhit[i + 1] > omax[i + 1])
    THEN 0 ELSE 1

\* one candidate t of the slab loop: the new tmin
BoxCandidate(ray, cmin, cmax, time_min, tmin, i, t) ==
    IF t > time_min /\ t < tmin
          /\ ray_intersect_solid_box_face(At(ray, t), cmin, cmax, i) = 1
    THEN t ELSE tmin

\* the body of the loop over the axes for axis i (0-based): the new tmin
BoxAxis(ray, cmin, cmax, time_min, tmin, i) ==
    LET rdi == ray.direction[i + 1]
        omin == VSub(cmin, ray.origin)
        omax == VSub(cmax, ray.origin)
    IN IF rdi # 0
       THEN LET t1 == BoxCandidate(ray, cmin, cmax, time_min, tmin, i,
                                   Div(omin[i + 1], rdi))
            IN BoxCandidate(ray, cmin, cmax, time_min, t1, i, Div(omax[i + 1], rdi))
       ELSE tmin

ray_intersect_solid_box(ray, cmin, cmax, time_min, time_max) ==
    LET t0 == BoxAxis(ray, cmin, cmax, time_min, time_max, 0)
        t1 == BoxAxis(ray, cmin, cmax, time_min, t0, 1)
        tmin == BoxAxis(ray, cmin, cmax, time_min, t1, 2)
    IN [is_hit |-> IF tmin > time_min /\ tmin < time_max THEN 1 ELSE 0, tmin |-> tmin]

\* octlist[k] of the zero-initialised field kept as its written prefix
ListAt(ol, k) == IF k + 1 <= Len(ol) THEN ol[k + 1] ELSE 0
ListSet(ol, k, v) ==
    IF k + 1 <= Len(ol) THEN [ol EXCEPT ![k + 1] = v]
    ELSE ol \o [j \in 1..(k - Len(ol)) |-> 0] \o <<v>>

\* the locals of one ray_intersect call; pc is the position in its body
QueryStart(ray, time_min, time_max) ==
    [ray |-> ray, time_min |-> time_min, time_max0 |-> time_max,
     is_hit |-> 0, time_max |-> time_max, hit_point |-> DefaultPoint,
     hit_normal |-> DefaultNormal, material |-> 0, color |-> SoupColor, is_inside |-> 0,
     oclist_tail |-> 0, node |-> ZeroNode, child |-> 0, pc |-> "start"]

LoopHead(tail) == IF tail >= 0 THEN "pop" ELSE "done"

\* one step of a call: "start" writes octlist[0] = 0; "pop" reads
\* octree[octlist[oclist_tail]] and tests its box; "child" handles node.subn[child]
TravStep(q, ol, kind, fs, oct) ==
    IF q.pc = "start"
    THEN [q |-> [q EXCEPT !.pc = "pop"], ol |-> ListSet(ol, 0, 0)]
    ELSE IF q.pc = "pop"
    THEN LET node == NodeAt(oct, ListAt(ol, q.oclist_tail))
             tail == q.oclist_tail - 1
             box == ray_intersect_solid_box(q.ray, node.cmin, node.cmax,
                                            q.time_min, q.time_max)
         IN [q |-> IF box.is_hit = 0
                   THEN [q EXCEPT !.oclist_tail = tail, !.node = node,
                                  !.pc = LoopHead(tail)]
                   ELSE [q EXCEPT !.oclist_tail = tail, !.node = node,
                                  !.child = 0, !.pc = "child"],
             ol |-> ol]
    ELSE IF q.pc = "child"
    THEN LET rci == q.node.subn[q.child + 1]
             q1 == IF rci > 0
                   THEN [q EXCEPT !.oclist_tail = q.oclist_tail + 1]
                   ELSE IF rci < 0
                   THEN LET item == fs[(-1 * (rci + 1)) + 1]
                            h == FaceHit(kind, item, q.ray, q.time_min, q.time_max)
                        IN IF h.hit
                           THEN [q EXCEPT !.is_hit = 1, !.time_max = h.t,
                                          !.hit_point = h.p, !.hit_normal = item.n,
                                          !.material = item.material,
                                          !.color = item.color]
                           ELSE q
                   ELSE q
         IN [q |-> [q1 EXCEPT !.child = IF q.child = 0 THEN 1 ELSE 0,
                              !.pc = IF q.child = 0 THEN "child"
                                     ELSE LoopHead(q1.oclist_tail)],
             ol |-> IF rci > 0 THEN ListSet(ol, q.oclist_tail + 1, rci) ELSE ol]
    ELSE [q |-> q, ol |-> ol]

RECURSIVE TravRun(_, _, _, _, _)
TravRun(q, ol, kind, fs, oct) ==
    IF q.pc = "done" THEN [q |-> q, ol |-> ol]
    ELSE LET st == TravStep(q, ol, kind, fs, oct)
         IN TravRun(st.q, st.ol, kind, fs, oct)

HitOf(q) ==
    [is_hit |-> q.is_hit, hit_time |-> q.time_max, hit_point |-> q.hit_point,
     hit_normal |-> q.hit_normal, material |-> q.material, color |-> q.color,
     is_inside |-> q.is_inside]

\* TriangleSoup.ray_intersect run alone: what it returns and the stack it leaves
TriangleSoup_ray_intersect(kind, fs, oct, ol, ray, time_min, time_max) ==
    LET fin == TravRun(QueryStart(ray, time_min, time_max), ol, kind, fs, oct)
    IN [res |-> HitOf(fin.q), octlist |-> fin.ol]

---------------------------------------------------------------------------
(* TriangleSoup / ParallelogramSoup / Box: the calls *)

MaxFaces == 3

\* side of the catalogue's faces and the heights they lie at (model units)
HalfSide == 200
Side == 2 * HalfSide
FaceUp(x) == <<VAdd(x, <<0, Side, 0>>), x, VAdd(x, <<Side, 0, 0>>)>>

\* (a, x, b) triples: three stacked faces with normal +z, a skewed one, and
\* faces of zero area, of area 1e-12, and of area 1e-10 in a plane x = const
SoupFaces ==
    {FaceUp(<<0, 0, 0>>), FaceUp(<<0, 0, -Side>>), FaceUp(<<0, 0, -2 * Side>>),
     <<<<Side, Side, 0>>, <<0, 0, 0>>, <<Side, 0, 0>>>>,
     <<<<0, 0, 0>>, <<0, 0, 0>>, <<Side, 0, 0>>>>,
     <<<<0, 2, 0>>, <<0, 0, 0>>, <<2, 0, 0>>>>,
     <<<<0, 0, 20>>, <<0, 0, 0>>, <<0, 20, 0>>>>}

FaceRays ==
    {Ray(<<100, 100, 200>>, <<0, 0, -1>>), Ray(<<100, 100, -100>>, <<0, 0, -1>>),
     Ray(<<600, 300, 200>>, <<0, 0, -1>>), Ray(<<100, 100, -900>>, <<0, 0, 1>>),
     Ray(<<-100, 100, 0>>, <<1, 0, 0>>)}
FaceTimeMins == {0}
FaceTimeMaxs == {500, 100000}

\* self.material and self.color of a soup built with the defaults
SoupMaterial == M_unknown

\* the constructors act once: the model follows one soup object
TriangleSoup_init(kind, count) ==
    /\ faceCap = 0
    /\ soupKind' = kind
    /\ faceCap' = count
    /\ faces' = [i \in 1..count |-> ZeroFace]
    /\ face_count' = 0
    /\ octree' = <<>>
    /\ octlist' = <<>>
    /\ faceErr' = FALSE
    /\ treeCount' = 0
    /\ faceQ' = EditCall("init", None, None)

\* faces[i] is written only inside the field: face_count < count is the caller's
TriangleSoup_append(a, x, b) ==
    /\ ~faceErr /\ face_count < faceCap
    /\ ExactFace(a, x, b)
    /\ LET r == AppendFace(faces, face_count, a, x, b, SoupMaterial, SoupColor)
       IN /\ faces' = r.faces
          /\ face_count' = r.count
          /\ faceErr' = r.raised
    /\ faceQ' = EditCall("append", <<a, x, b>>, None)
    /\ UNCHANGED <<soupKind, faceCap, octree, octlist, treeCount>>

\* the fields build_tree writes
TreeFields(bt) == faces' = bt.faces /\ octree' = bt.octree /\ faceErr' = bt.raised

\* the call record keeps the rounding the build met
TriangleSoup_build_tree(rnd) ==
    /\ ~faceErr /\ face_count >= 1
    /\ TreeFields(BuildTree(faces, face_count, octree, rnd))
    /\ treeCount' = face_count
    /\ faceQ' = EditCall("build_tree", rnd, None)
    /\ UNCHANGED <<soupKind, faceCap, face_count, octlist>>

TriangleSoup_query(ray, time_min, time_max) ==
    /\ ~faceErr /\ faceCap > 0
    /\ LET r == TriangleSoup_ray_intersect(soupKind, faces, octree, octlist, ray,
                                           time_min, time_max)
       IN /\ faceQ' = QueryCall(None, ray, time_min, time_max, r.res)
          /\ octlist' = r.octlist
    /\ UNCHANGED <<soupKind, faceCap, faces, face_count, octree, faceErr, treeCount>>

\* the six append calls of Box.__init__, in order
BoxFaces(a, x, b, c, normal_out) ==
    LET d == VSub(VAdd(b, c), x)
        e == VSub(VAdd(a, c), x)
        f == VSub(VAdd(b, a), x)
    IN IF normal_out
       THEN << <<a, x, b>>, <<f, b, d>>, <<b, x, c>>, <<e, a, f>>, <<c, x, a>>, <<d, c, e>> >>
       ELSE << <<b, x, a>>, <<d, b, f>>, <<c, x, b>>, <<f, a, e>>, <<a, x, c>>, <<e, c, d>> >>

\* the corners x, a, b, c that Box.new derives from center and size
BoxCorners(center, size) ==
    LET halfs == VDiv(size, 2)
    IN [x |-> <<center[1] + halfs[1], center[2] - halfs[2], center[3] + halfs[3]>>,
        a |-> <<center[1] - halfs[1], center[2] - halfs[2], center[3] + halfs[3]>>,
        b |-> <<center[1] + halfs[1], center[2] + halfs[2], center[3] + halfs[3]>>,
        c |-> <<center[1] + halfs[1], center[2] - halfs[2], center[3] - halfs[3]>>]

\* the appends of Box.__init__ from call k on; the first that raises ends them
RECURSIVE BoxAppends(_, _, _, _, _)
BoxAppends(calls, k, st, material, color) ==
    IF k > Len(calls) \/ st.raised THEN st
    ELSE BoxAppends(calls, k + 1,
                    AppendFace(st.faces, st.count, calls[k][1], calls[k][2], calls[k][3],
                               material, color),
                    material, color)

BoxSizes == {20, Side}
BoxDepths == BoxSizes \cup {2 * Side}
BoxCenters == {<<0, 0, 0>>, <<1000, 100, -100>>}

\* the fields of a Box after the appends ap of Box.__init__ and, when none
\* raised, build_tree
BoxTree(ap, bt) ==
    [faces |-> bt.faces, count |-> ap.count, raised |-> bt.raised,
     octree |-> bt.octree, treeCount |-> ap.count]
BoxBuilt(ap, rnd) ==
    IF ap.raised
    THEN [faces |-> ap.faces, count |-> ap.count, raised |-> TRUE, octree |-> <<>>,
          treeCount |-> 0]
    ELSE BoxTree(ap, BuildTree(ap.faces, ap.count, <<>>, rnd))
BoxInit(cr, normal_out, rnd) ==
    BoxBuilt(BoxAppends(BoxFaces(cr.a, cr.x, cr.b, cr.c, normal_out), 1,
                        [faces |-> [i \in 1..6 |-> ZeroFace], count |-> 0,
                         raised |-> FALSE],
                        M_metal, <<1, 0, 0>>), rnd)

\* the fields of Box.new(center, size, material, color, normal_out): a new
\* ParallelogramSoup(6), six appends and, when none raised, build_tree under
\* the rounding rnd
BoxOf(center, size, normal_out, rnd) ==
    BoxInit(BoxCorners(center, size), normal_out, rnd)

BoxFields(box) ==
    /\ faceErr' = box.raised
    /\ face_count' = box.count
    /\ faces' = box.faces
    /\ octree' = box.octree
    /\ treeCount' = box.treeCount

Box_new(center, size, normal_out, rnd) ==
    /\ faceCap = 0
    /\ soupKind' = "Parallelogram"
    /\ faceCap' = 6
    /\ BoxFields(BoxOf(center, size, normal_out, rnd))
    /\ octlist' = <<>>
    /\ faceQ' = EditCall("Box.new", <<center, size, normal_out, rnd>>, None)

FaceNext ==
    \/ \E kind \in {"Triangle", "Parallelogram"}, count \in 1..MaxFaces :
          TriangleSoup_init(kind, count)
    \/ \E f \in SoupFaces : TriangleSoup_append(f[1], f[2], f[3])
    \/ \E rnd \in Roundings : TriangleSoup_build_tree(rnd)
    \/ \E ray \in FaceRays, tmin \in FaceTimeMins, tmax \in FaceTimeMaxs :
          TriangleSoup_query(ray, tmin, tmax)
    \/ \E center \in BoxCenters, s1 \in BoxSizes, s2 \in BoxSizes, s3 \in BoxDepths,
          normal_out \in BOOLEAN, rnd \in Roundings :
             Box_new(center, <<s1, s2, s3>>, normal_out, rnd)

SpecFace ==
    IdleInit /\ [][FaceNext /\ UNCHANGED <<sceneVars, primVars, ssVars, thrVars>>]_vars

---------------------------------------------------------------------------
(* Concurrent ray_intersect calls on one built soup.  Every call uses the   *)
(* soup's one octlist field; a step of a call is one access to that field.  *)

MaxThreads == 2

\* a soup of the three stacked faces, appended and built
AppendTo(st, f) ==
    AppendFace(st.faces, st.count, f[1], f[2], f[3], SoupMaterial, SoupColor)
Built(st, bt) == [faces |-> bt.faces, octree |-> bt.octree, count |-> st.count]
BuildOf(st, rnd) == Built(st, BuildTree(st.faces, st.count, <<>>, rnd))
BuiltSoup(rnd) ==
    BuildOf(AppendTo(AppendTo(AppendTo([faces |-> [i \in 1..MaxFaces |-> ZeroFace],
                                        count |-> 0, raised |-> FALSE],
                                       FaceUp(<<0, 0, 0>>)),
                              FaceUp(<<0, 0, -Side>>)),
                     FaceUp(<<0, 0, -2 * Side>>)), rnd)

SoupFields(soup) ==
    /\ faces = soup.faces
    /\ octree = soup.octree
    /\ face_count = soup.count
    /\ treeCount = soup.count

ConcInit ==
    /\ objList = <<>> /\ objName = <<>> /\ sceneQ = NoCall
    /\ primQ = NoCall
    /\ num_sphere = 0 /\ spheres = <<>> /\ scount = 0 /\ soupErr = FALSE
    /\ soupQ = NoCall
    /\ soupKind \in {"Triangle", "Parallelogram"}
    /\ faceCap = MaxFaces
    /\ \E rnd \in Roundings : SoupFields(BuiltSoup(rnd))
    /\ octlist = <<>> /\ faceErr = FALSE /\ faceQ = NoCall
    /\ thr \in [1..MaxThreads ->
                  {QueryStart(ray, tmin, tmax) :
                     ray \in FaceRays, tmin \in FaceTimeMins, tmax \in FaceTimeMaxs}]

\* the next step of the call running in thread i
Thread_step(i) ==
    /\ thr[i].pc # "done"
    /\ LET st == TravStep(thr[i], octlist, soupKind, faces, octree)
       IN /\ thr' = [thr EXCEPT ![i] = st.q]
          /\ octlist' = st.ol
    /\ UNCHANGED <<soupKind, faceCap, faces, face_count, octree, faceErr, faceQ,
                   treeCount>>

ConcNext == \E i \in 1..MaxThreads : Thread_step(i)

SpecConc == ConcInit /\ [][ConcNext /\ UNCHANGED <<sceneVars, primVars, ssVars>>]_vars

---------------------------------------------------------------------------
(* Properties of the single primitives and the Scene *)

InRange(h, time_min, time_max) ==
    h.is_hit = 1 /\ time_min < h.hit_time /\ h.hit_time < time_max

\* hit times, each object asked alone with the caller's time_min and time_max
ObjHitTimes(objs, ray, time_min, time_max) ==
    {Obj_ray_intersect(objs[i], ray, time_min, time_max).hit_time :
        i \in {j \in 1..Len(objs) :
                 InRange(Obj_ray_intersect(objs[j], ray, time_min, time_max),
                         time_min, time_max)}}
MinOf(S) == CHOOSE m \in S : \A n \in S : m <= n
Reorder(objs, f) == [i \in 1..Len(objs) |-> objs[f[i]]]

\* C1: when every registered object (in particular a Sphere and a Plane) is
\* hit by the ray within (time_min, time_max), Scene.ray_intersect returns the
\* smallest of their hit_times, whatever the registration order.
C1_NearestAnyOrder ==
    (sceneQ.op = "ray_intersect" /\ objList # <<>>
        /\ \A i \in 1..Len(objList) :
              InRange(Obj_ray_intersect(objList[i], sceneQ.ray, sceneQ.time_min,
                                        sceneQ.time_max),
                      sceneQ.time_min, sceneQ.time_max))
    => LET ts == ObjHitTimes(objList, sceneQ.ray, sceneQ.time_min, sceneQ.time_max)
       IN /\ sceneQ.res.is_hit = 1
          /\ sceneQ.res.hit_time = MinOf(ts)
          /\ \A f \in Permutations(1..Len(objList)) :
                LET r == Scene_ray_intersect(Reorder(objList, f), sceneQ.ray,
                                             sceneQ.time_min, sceneQ.time_max)
                IN r.is_hit = 1 /\ r.hit_time = MinOf(ts)

StrictlyInside(obj, ray) ==
    LET oc == VSub(ray.origin, obj.center)
    IN Dot(oc, oc) < obj.radius * obj.radius

\* C3: a ray whose origin is strictly inside a sphere gets is_hit = 1,
\* is_inside = 1 and a hit_time greater than 0.
C3_InsideHit ==
    (primQ.op = "ray_intersect" /\ primQ.obj.kind = "Sphere"
        /\ StrictlyInside(primQ.obj, primQ.ray))
    => (primQ.res.is_hit = 1 /\ primQ.res.is_inside = 1 /\ primQ.res.hit_time > 0)

HitTimeInBounds(q) ==
    (q.op = "ray_intersect" /\ q.time_min < q.time_max /\ q.res.is_hit = 1)
    => (q.time_min < q.res.hit_time /\ q.res.hit_time <= q.time_max)

\* C4: every ray_intersect call with time_min < time_max that returns
\* is_hit = 1 returns a hit_time with time_min < hit_time <= time_max.
C4_HitTimeInBounds ==
    /\ HitTimeInBounds(primQ)
    /\ HitTimeInBounds(soupQ)
    /\ HitTimeInBounds(faceQ)
    /\ HitTimeInBounds(sceneQ)

\* C9: Plane.ray_intersect reports a hit only if direction.normal < 0 and
\* time_min < t < time_max, strictly on both ends, for the solved t.
C9_PlaneStrict ==
    (primQ.op = "ray_intersect" /\ primQ.obj.kind = "Plane" /\ primQ.res.is_hit = 1)
    => LET nd == Dot(primQ.obj.normal, primQ.ray.direction)
           nc == Dot(primQ.obj.normal, VSub(primQ.obj.center, primQ.ray.origin))
       IN /\ nd < 0
          /\ \E t \in (-4 * MaxCoord)..(4 * MaxCoord) :
                t * nd = nc /\ primQ.time_min < t /\ t < primQ.time_max

C6_NamesUnique ==
    /\ Len(objName) = Len(objList)
    /\ \A i, j \in 1..Len(objName) : objName[i] = objName[j] => i = j
C6_ReplaceInPlace ==
    (sceneQ'.op = "append" /\ sceneQ'.name # None
        /\ \E i \in 1..Len(objName) : objName[i] = sceneQ'.name)
    => /\ objName' = objName
       /\ objList' = [objList EXCEPT ![IndexOf(objName, sceneQ'.name)] = sceneQ'.obj]
\* C6: the names are pairwise distinct and objName, objList have one length;
\* append with a name already present replaces the object at that name's
\* index and changes nothing else.
C6_SceneRegistry == []C6_NamesUnique /\ [][C6_ReplaceInPlace]_vars
\* an append just replaced the object of a name that is not the last one
C6_Witness ==
    /\ sceneQ.op = "append" /\ sceneQ.name # None
    /\ Len(objName) = MaxObjs
    /\ IndexOf(objName, sceneQ.name) \in 1..(Len(objName) - 1)
    /\ objList[IndexOf(objName, sceneQ.name)] = sceneQ.obj
    /\ objList[1] # objList[2]

C8_WithinCapacity == scount <= num_sphere /\ Len(spheres) = num_sphere /\ ~soupErr
C8_FullIgnored ==
    (soupQ'.op = "append" /\ scount = num_sphere)
    => (scount' = scount /\ spheres' = spheres /\ soupErr' = FALSE)
\* C8: SphereSoup.append at full capacity raises nothing and leaves scount and
\* every stored sphere unchanged; scount <= num_sphere always.
C8_AppendAtCapacity == []C8_WithinCapacity /\ [][C8_FullIgnored]_vars
\* an append was just made on a full soup
C8_Witness ==
    /\ soupQ.op = "append" /\ scount = num_sphere
    /\ \A i \in 1..scount : spheres[i] # soupQ.obj

---------------------------------------------------------------------------
(* Properties of the face soups *)

\* hit times of a scan that applies FaceHit to every stored face
BruteTimes(kind, fs, cnt, ray, time_min, time_max) ==
    {FaceHit(kind, fs[i], ray, time_min, time_max).t :
        i \in {j \in 1..cnt : FaceHit(kind, fs[j], ray, time_min, time_max).hit}}

\* C2: on a soup whose tree was built after all appends, ray_intersect has
\* the is_hit and the nearest hit_time of a scan over every stored face.
C2_TraversalIsScan ==
    (faceQ.op = "ray_intersect" /\ treeCount > 0 /\ treeCount = face_count)
    => LET ts == BruteTimes(soupKind, faces, face_count, faceQ.ray, faceQ.time_min,
                            faceQ.time_max)
       IN /\ (faceQ.res.is_hit = 1) <=> (ts # {})
          /\ (ts # {}) => (faceQ.res.hit_time = MinOf(ts))

\* C5: under every interleaving of the steps of concurrent ray_intersect
\* calls on one built soup, a call that has returned has the result of the
\* same call run alone.
C5_ConcurrentAsAlone ==
    \A i \in 1..Len(thr) :
        (thr[i].pc = "done")
        => HitOf(thr[i]) = TriangleSoup_ray_intersect(soupKind, faces, octree, <<>>,
                               thr[i].ray, thr[i].time_min, thr[i].time_max0).res

Degenerate(f) == Norm(Cross(VSub(f[3], f[2]), VSub(f[1], f[2]))) <= AreaEps

\* C7: append of a face whose area is not above 1e-12 (zero included) raises
\* nothing, stores no face and leaves face_count unchanged.
C7_DegenerateDropped ==
    [][(faceQ'.op = "append" /\ Degenerate(faceQ'.obj))
        => (~faceErr' /\ faces' = faces /\ face_count' = face_count)]_vars

FaceCorners(f) ==
    {f.x, VAdd(f.x, f.ax), VAdd(f.x, f.bx), VAdd(VAdd(f.x, f.ax), f.bx)}
\* the face's normal points from the centre c towards the face's plane
PointsAway(f, c) == Dot(f.n, VSub(f.x, c)) > 0

\* with normal_out the normals of fs point away from center; without it each
\* face has the corners of the same face of twin and the negated normal
BoxAsClaimed(fs, twin, center, normal_out) ==
    /\ twin.count = 6
    /\ \A i \in 1..6 :
          /\ PointsAway(fs[i], center) <=> normal_out
          /\ FaceCorners(fs[i]) = FaceCorners(twin.faces[i])
          /\ fs[i].n = VNeg(twin.faces[i].n)

\* C10: Box.new with positive sizes stores exactly 6 faces; with normal_out
\* the normals point away from the centre; without it face i has the corners
\* of face i of the normal_out box and the negated normal.
C10_BoxFaces ==
    (faceQ.op = "Box.new")
    => /\ ~faceErr /\ face_count = 6
       /\ BoxAsClaimed(faces, BoxOf(faceQ.obj[1], faceQ.obj[2], ~faceQ.obj[3],
                                    faceQ.obj[4]),
                       faceQ.obj[1], faceQ.obj[3])

---------------------------------------------------------------------------
(* Properties of the SphereSoup query, the Scene result, the tree build     *)
(* and the face determinants                                                *)

\* hit times of the stored spheres, each asked alone with the caller's bounds
SphereHitTimes(sps, n, ray, time_min, time_max) ==
    {sphere_hit(sps[i].x, sps[i].r, ray, time_min, time_max).hit_time :
        i \in {j \in 1..n :
                 InRange(sphere_hit(sps[j].x, sps[j].r, ray, time_min, time_max),
                         time_min, time_max)}}

SoupReturnsMin(q, ts) == (ts # {}) => (q.res.is_hit = 1 /\ q.res.hit_time = MinOf(ts))

AllSpheresInRange(sps, n, ray, time_min, time_max) ==
    \A i \in 1..n : InRange(sphere_hit(sps[i].x, sps[i].r, ray, time_min, time_max),
                             time_min, time_max)

\* C11: when every stored sphere is hit by the ray within (time_min, time_max),
\* SphereSoup.ray_intersect returns the smallest of their hit_times, whatever
\* the order of the appends.
C11_SoupMinAnyOrder ==
    (soupQ.op = "ray_intersect"
        /\ AllSpheresInRange(spheres, scount, soupQ.ray, soupQ.time_min, soupQ.time_max))
    => SoupReturnsMin(soupQ, SphereHitTimes(spheres, scount, soupQ.ray, soupQ.time_min,
                                            soupQ.time_max))

\* info is an object's hit with time_min < hit_time < bound, and res carries it
AcceptedAs(res, info, time_min, bound) ==
    /\ info.is_hit = 1 /\ info.hit_time > time_min /\ info.hit_time < bound
    /\ res.hit_time = info.hit_time
    /\ res.hit_point = info.hit_point
    /\ res.hit_normal = info.hit_normal
    /\ res.material = info.material
    /\ res.color = info.color
    /\ res.is_inside = info.is_inside
\* before is the loop's hit record when obj is queried; its hit_time is the
\* time_max in force
AcceptedBy(res, obj, ray, time_min, before) ==
    AcceptedAs(res, Obj_ray_intersect(obj, ray, time_min, before.hit_time), time_min,
               before.hit_time)
AcceptedAt(objs, i, q) ==
    AcceptedBy(q.res, objs[i], q.ray, q.time_min,
               SceneLoop(SubSeq(objs, 1, i - 1), 1, SceneStart(q.time_max), q.ray,
                         q.time_min))

\* C12: Scene.ray_intersect returns is_hit = 1 only with the hit_time, point,
\* normal, material, color and is_inside of one object's hit that had
\* time_min < hit_time < the time_max in force when the object was queried.
C12_HitIsAccepted ==
    (sceneQ.op = "ray_intersect" /\ sceneQ.res.is_hit = 1)
    => \E i \in 1..Len(objList) : AcceptedAt(objList, i, sceneQ)

\* the face indices at the leaves of a TreeNode tree, left to right
RECURSIVE TreeLeaves(_)
TreeLeaves(node) ==
    IF node.tag = "None" THEN <<>>
    ELSE IF is_leaf(node) THEN <<node.index>>
    ELSE TreeLeaves(node.left) \o TreeLeaves(node.right)

\* the number of inner nodes of a TreeNode tree
RECURSIVE TreeInner(_)
TreeInner(node) ==
    IF node.tag = "None" \/ is_leaf(node) THEN 0
    ELSE 1 + TreeInner(node.left) + TreeInner(node.right)

\* the face indices decoded from the leaf slots met walking the flattened
\* array from node idx, left to right; fuel bounds the depth of the walk
RECURSIVE LeafRefs(_, _, _)
RECURSIVE SlotRefs(_, _, _)
SlotRefs(oct, v, fuel) ==
    IF v < 0 THEN <<-1 * (v + 1)>>
    ELSE IF v > 0 THEN LeafRefs(oct, v, fuel - 1)
    ELSE <<>>
LeafRefs(oct, idx, fuel) ==
    IF fuel <= 0 THEN <<-1>>
    ELSE SlotRefs(oct, NodeAt(oct, idx).subn[1], fuel)
            \o SlotRefs(oct, NodeAt(oct, idx).subn[2], fuel)

\* the nodes met on that walk
RECURSIVE NodeRefs(_, _, _)
RECURSIVE SlotNodes(_, _, _)
SlotNodes(oct, v, fuel) == IF v > 0 THEN NodeRefs(oct, v, fuel - 1) ELSE <<>>
NodeRefs(oct, idx, fuel) ==
    IF fuel <= 0 THEN <<-1>>
    ELSE <<idx>> \o SlotNodes(oct, NodeAt(oct, idx).subn[1], fuel)
                 \o SlotNodes(oct, NodeAt(oct, idx).subn[2], fuel)

EachOnce(refs, count) ==
    /\ Len(refs) = count
    /\ {refs[k] : k \in 1..Len(refs)} = 0..(count - 1)

TreeIsCurrent == ~faceErr /\ treeCount >= 1 /\ treeCount = face_count

C13_EveryFaceOnce ==
    TreeIsCurrent => EachOnce(LeafRefs(octree, 0, Len(octree)), face_count)

\* the flattened array has the leaves of the tree in the tree's order and as
\* many nodes as the tree has inner nodes
FlatKeeps(node, oct) ==
    /\ LeafRefs(oct, 0, Len(oct)) = TreeLeaves(node)
    /\ Len(NodeRefs(oct, 0, Len(oct))) = TreeInner(node)
C13_NothingDropped ==
    (faceQ'.op = "build_tree")
    => \E rnd \in Roundings :
          /\ rnd = faceQ'.obj
          /\ FlatKeeps(split_aabb(faces, compute_object_centers(faces, face_count), 0,
                                  face_count, rnd, 1).node, octree')

\* C13: after build_tree the flattened node array, walked from index 0, refers
\* to every face index 0..count-1 in exactly one leaf slot, and has every
\* leaf and inner node of the tree split_aabb returned.
C13_FlatTreeComplete == []C13_EveryFaceOnce /\ [][C13_NothingDropped]_vars
\* a tree over three faces was just built: a root with two inner children
C13_Witness ==
    /\ faceQ.op = "build_tree" /\ face_count = MaxFaces /\ face_count >= 3
    /\ Len(octree) >= 3
    /\ NodeAt(octree, 0).subn[1] > 0 /\ NodeAt(octree, 0).subn[2] > 0


\* split_aabb's walk over the ranges of size >= 3 below [left, right): each is
\* split at an lx strictly inside it
RECURSIVE SplitsInside(_, _, _, _, _)
SplitsRight(l, lx, right, rnd) == SplitsInside(l.faces, l.centers, lx, right, rnd)
SplitInsideAt(st, lx, left, right, rnd) ==
    /\ left < lx /\ lx < right
    /\ SplitsInside(st.faces, st.centers, left, lx, rnd)
    /\ SplitsRight(split_aabb(st.faces, st.centers, left, lx, rnd, 1), lx, right, rnd)
SplitInsideOf(st, left, right, rnd) ==
    SplitInsideAt(st, GuardSplit(st.lx, left, right), left, right, rnd)
SortedAt(fs, cs, cmm, left, right) ==
    sort_triangles(fs, cs, cmm, left, right, SplitAxis(cmm.size))
SplitsInside(fs, cs, left, right, rnd) ==
    \/ right - left < 3
    \/ SplitInsideOf(SortedAt(fs, cs, compute_box(fs, cs, left, right, rnd), left, right),
                     left, right, rnd)

\* a build_tree call returned: the nesting of split_aabb stayed within the limit
C14_BuildEnds == (faceQ.op = "build_tree") => ~faceErr
\* asked of every face array when it is new (a query leaves the faces alone)
C14_SplitsInside ==
    (~faceErr /\ face_count >= 1 /\ faceQ.op # "ray_intersect")
    => \A rnd \in Roundings :
          SplitsInside(faces, compute_object_centers(faces, face_count), 0, face_count,
                       rnd)

\* C14: build_tree terminates for every face array, equal centroids included:
\* split_aabb splits every range of size >= 3 at an lx with left < lx < right,
\* so both recursive calls get a non-empty, strictly smaller range.
C14_BuildTerminates == C14_BuildEnds /\ C14_SplitsInside

SameCenters(fs, count) ==
    \A i \in 1..count :
       compute_object_centers(fs, count)[i] = compute_object_centers(fs, count)[1]
\* a built soup of at least three faces whose centroids are all equal, the
\* stored mean rounded below them
C14_Witness ==
    /\ faceQ.op = "build_tree" /\ faceQ.obj = -1 /\ ~faceErr
    /\ face_count = MaxFaces /\ face_count >= 3
    /\ SameCenters(faces, face_count)
    /\ NodeAt(octree, 0).subn[1] > 0 /\ NodeAt(octree, 0).subn[2] > 0

\* the extent of the (doubled) centroids of the faces in [left, right) along
\* axis j, and the axes where it is largest
Extent(cs, left, right, j) ==
    SetMax({cs[i][j + 1] : i \in (left + 1)..right})
    - SetMin({cs[i][j + 1] : i \in (left + 1)..right})
LargestAxes(cs, left, right) ==
    {j \in 0..2 : \A k \in 0..2 : Extent(cs, left, right, j) >= Extent(cs, left, right, k)}

\* split_aabb's walk over the ranges of size >= 3 below [left, right): the axis
\* each is split along is one of largest centroid extent over its faces
RECURSIVE AxesLargest(_, _, _, _, _)
AxesRight(l, lx, right, rnd) == AxesLargest(l.faces, l.centers, lx, right, rnd)
AxesBelow(st, lx, left, right, rnd) ==
    /\ AxesLargest(st.faces, st.centers, left, lx, rnd)
    /\ AxesRight(split_aabb(st.faces, st.centers, left, lx, rnd, 1), lx, right, rnd)
AxesBelowOf(st, left, right, rnd) ==
    AxesBelow(st, GuardSplit(st.lx, left, right), left, right, rnd)
AxisLargestAt(fs, cs, cmm, left, right, rnd) ==
    /\ SplitAxis(cmm.size) \in LargestAxes(cs, left, right)
    /\ AxesBelowOf(SortedAt(fs, cs, cmm, left, right), left, right, rnd)
AxesLargest(fs, cs, left, right, rnd) ==
    \/ right - left < 3
    \/ AxisLargestAt(fs, cs, compute_box(fs, cs, left, right, rnd), left, right, rnd)

\* C15: the axis split_aabb splits a range [L, R) along is an axis of largest
\* centroid extent over exactly the faces in [L, R), wherever the faces lie
\* relative to the origin.
C15_SplitAxisLargest ==
    (~faceErr /\ face_count >= 1 /\ faceQ.op # "ray_intersect")
    => \A rnd \in Roundings :
          AxesLargest(faces, compute_object_centers(faces, face_count), 0, face_count,
                      rnd)

\* the stored face keeps the index of a sub-determinant of largest absolute
\* value and that determinant, whose reciprocal idet exists
LargestDet(f) ==
    /\ \A k \in 0..2 :
          Abs(SubDet(f.ax, f.bx, f.idetidx)) >= Abs(SubDet(f.ax, f.bx, k))
    /\ f.det = SubDet(f.ax, f.bx, f.idetidx)
    /\ f.det # 0

\* C16: for every non-degenerate face the idet_axis recorded by
\* _parallelogram_init is the index of the 2x2 sub-determinant of (ax, bx) of
\* largest absolute value, and idet is the reciprocal of that determinant.
C16_LargestDeterminant ==
    [][(faceQ'.op = "append" /\ ~Degenerate(faceQ'.obj))
        => (~faceErr' /\ face_count' = face_count + 1
            /\ LargestDet(faces'[face_count']))]_vars

\* C17: Scene.append(obj) with the name omitted always adds a new entry: the
\* number of registered objects grows by one and every object and name
\* registered before is kept.
C17_AutoNameAdds ==
    [][(sceneQ'.op = "append" /\ sceneQ'.name = None)
        => (/\ Len(objList') = Len(objList) + 1
            /\ SubSeq(objList', 1, Len(objList)) = objList
            /\ SubSeq(objName', 1, Len(objName)) = objName)]_vars

====
